---- MODULE Spec2Model ----
(***************************************************************************)
(* wmfocus: hint assignment, hint placement and the key-driven selection   *)
(* loop of main(), with the helpers of utils.rs it calls.                  *)
(*                                                                         *)
(* Strings are sequences of one-character strings ("ab" is <<"a","b">>).   *)
(* Key names (the result of keysym_to_string) are atoms such as "a" or     *)
(* "Control_L"; Chars gives the characters of a key name.                  *)
(***************************************************************************)
EXTENDS Integers, Sequences, FiniteSets, TLC

VARIABLES
    pc,               \* position of main(): "assign", "nudge", "grab_keyboard",
                      \* "grab_mouse", "loop", "done", or of a pure-function run
    hint_chars,       \* app_config.hint_chars
    print_only,       \* app_config.print_only
    exit_keys,        \* app_config.exit_keys: a list of Sequences
    desktop_windows,  \* the sorted list of DesktopWindows
    extents,          \* width and height (margin included) of the hint box of
                      \* each desktop window, as extents_for_text yields them
    render_windows,   \* HashMap hint -> RenderWindow, as a function
    order,            \* the order in which render_windows iterates its keys
    hint,             \* the hint of window cur
    cur,              \* index of the desktop window the for loop is at
    rect,             \* candidate rectangle <<x, y, width, height>> of window cur
    overlaps,         \* the Vec find_overlaps returned last
    pressed_keys,     \* the pressed prefix
    sequence,         \* the chord of held keys
    closed,           \* the loop flag
    outcome,          \* how the run ended, "Running" while it has not
    effects,          \* the focus_window calls and the lines printed, in order
    event,            \* the event the loop handled last
    drawn,            \* the prefix the hints were drawn with last
    typed,            \* history: the keys typed cleanly so far (see Track)
    hist,             \* history: the operations applied to sequence so far, or
                      \* the replies the running snatch_* call got so far
    arg,              \* input of a pure-function run
    res               \* result of a pure-function run, or of the last step
                      \* of snatch_keyboard and snatch_mouse

vars == << pc, hint_chars, print_only, exit_keys, desktop_windows, extents,
           render_windows, order, hint, cur, rect, overlaps, pressed_keys,
           sequence, closed, outcome, effects, event, drawn, typed, hist, arg, res >>

configVars == << hint_chars, print_only, exit_keys, desktop_windows, extents >>
setupVars == << render_windows, order, hint, cur, rect, overlaps >>
loopVars == << pressed_keys, sequence, closed, outcome, effects, event, drawn, typed >>
pureVars == << hist, arg, res >>

\* Option: None, and Some(x).
None == << >>
Some(x) == << x >>
NoKey == ""

(***************************************************************************)
(* Bounds                                                                  *)
(***************************************************************************)
MaxWindows == 3     \* desktop windows of a run
MaxHeld == 2        \* tokens the chord holds at most
MaxPlaced == 3      \* desktop windows of a placement run
MaxOps == 4         \* push and remove calls of a Sequence run
MaxCoord == 2       \* rectangle coordinates and sizes in the intersects runs
MaxCount == 4       \* max_count of a get_next_hint run
MaxHints == 3       \* entries of current_hints in a get_next_hint run
MaxSize == 3        \* iterations of the size loop followed one by one
MaxAttempts == 2    \* failed grab attempts that fit into the timeout
MaxSorted == 3      \* desktop windows of a sort_by_pos run

(***************************************************************************)
(* Small generic helpers                                                   *)
(***************************************************************************)
Range(s) == { s[i] : i \in 1..Len(s) }

SeqsUpTo(S, n) == UNION { [1..k -> S] : k \in 0..n }

IsPrefix(p, s) == Len(p) <= Len(s) /\ SubSeq(s, 1, Len(p)) = p

\* str::contains: needle occurs in hay as a contiguous substring.
IsInfix(needle, hay) ==
    \E i \in 0..(Len(hay) - Len(needle)) :
        SubSeq(hay, i + 1, i + Len(needle)) = needle

\* The orders in which a HashMap may iterate the set S.
Orderings(S) ==
    { f \in [1..Cardinality(S) -> S] : \A x \in S : \E i \in DOMAIN f : f[i] = x }

\* Power with natural exponent.
RECURSIVE Pow(_, _)
Pow(b, e) == IF e = 0 THEN 1 ELSE b * Pow(b, e - 1)

(***************************************************************************)
(* Key names                                                               *)
(***************************************************************************)
Tokens == { "a", "A", "b", "g", "Control_L", "Escape" }

\* The keys the keyboard of the model sends.
Keys == { "a", "b", "g", "at", "Control_L", "Escape" }

\* The characters of a key name.
Chars(k) ==
    CASE k = "a" -> << "a" >>
      [] k = "A" -> << "A" >>
      [] k = "b" -> << "b" >>
      [] k = "g" -> << "g" >>
      [] k = "at" -> << "a", "t" >>
      [] k = "Control_L" -> << "C", "o", "n", "t", "r", "o", "l", "_", "L" >>
      [] k = "Escape" -> << "E", "s", "c", "a", "p", "e" >>
      [] OTHER -> << >>

\* str::to_lowercase of a key name; key names that differ only in letter case
\* have the same value.
to_lowercase(k) ==
    CASE k = "A" -> "a"
      [] k = "Control_L" -> "control_l"
      [] k = "Escape" -> "escape"
      [] OTHER -> k

\* Position of a lower-cased key name in the alphabetical order of strings.
AlphaRank(l) ==
    CASE l = "" -> 0
      [] l = "a" -> 1
      [] l = "at" -> 2
      [] l = "b" -> 3
      [] l = "control_l" -> 4
      [] l = "escape" -> 5
      [] l = "g" -> 6
      [] OTHER -> 7

(***************************************************************************)
(* Sequence, the chord of key names (utils::Sequence)                      *)
(***************************************************************************)
\* The text of an exit sequence is a list of pieces: key names and the
\* separator "+". Join writes a list of key names as such a text.
RECURSIVE Join(_)
Join(ts) ==
    IF Len(ts) = 0 THEN << >>
    ELSE IF Len(ts) = 1 THEN << ts[1] >>
    ELSE << ts[1], "+" >> \o Join(Tail(ts))

\* Splitting a text at every "+": n separators give n + 1 tokens, an empty
\* stretch gives the empty token.
RECURSIVE explode(_)
explode(s) ==
    IF \A i \in 1..Len(s) : s[i] # "+"
    THEN << (IF s = << >> THEN "" ELSE s[1]) >>
    ELSE LET i == CHOOSE j \in 1..Len(s) :
                      s[j] = "+" /\ \A m \in 1..(j - 1) : s[m] # "+"
         IN  << (IF i = 1 THEN "" ELSE s[1]) >> \o explode(SubSeq(s, i + 1, Len(s)))

\* One step of the stable sort: x goes behind every token whose lower-case
\* form is not greater than its own.
InsertSorted(x, s) ==
    LET smaller == { i \in 1..Len(s) :
                       AlphaRank(to_lowercase(s[i])) <= AlphaRank(to_lowercase(x)) }
        k == IF smaller = {} THEN 0
             ELSE CHOOSE i \in smaller : \A j \in smaller : j <= i
    IN  SubSeq(s, 1, k) \o << x >> \o SubSeq(s, k + 1, Len(s))

\* Case-insensitive alphabetical sort of a token list (stable).
RECURSIVE SortFrom(_, _)
SortFrom(done, todo) ==
    IF todo = << >> THEN done
    ELSE SortFrom(InsertSorted(Head(todo), done), Tail(todo))

sort(vec) == SortFrom(<< >>, vec)

\* Sequence::new(None) and Sequence::new(Some(text)).
Sequence_new(string) == IF string = None THEN << >> ELSE sort(explode(string[1]))

\* Mutants: every token equal to key is deleted; the pushed token is not
\* sorted in; one held token counts as started.
remove_all(seq, key) == SelectSeq(seq, LAMBDA x : x # key)

push_unsorted(seq, key) == Append(seq, key)

is_started_nonempty(seq) == Len(seq) >= 1

\* push: append the token, sort again.
push(seq, key) == sort(Append(seq, key))

\* remove: delete the first token that is exactly key.
remove(seq, key) ==
    IF \E i \in 1..Len(seq) : seq[i] = key
    THEN LET i == CHOOSE j \in 1..Len(seq) :
                      seq[j] = key /\ \A m \in 1..(j - 1) : seq[m] # key
         IN  SubSeq(seq, 1, i - 1) \o SubSeq(seq, i + 1, Len(seq))
    ELSE seq

\* is_started: more than one token is held.
is_started(seq) == Len(seq) > 1

\* Equality of Sequences: the sorted token lists agree, compared without
\* regard to letter case.
SequenceEq(s1, s2) ==
    /\ Len(s1) = Len(s2)
    /\ \A i \in 1..Len(s1) : to_lowercase(s1[i]) = to_lowercase(s2[i])

\* Mutant: nothing is taken back.
remove_last_key_kept(pressed, kstr) == pressed

\* remove_last_key: take back the key name appended last.
remove_last_key(pressed, kstr) ==
    LET n == Len(Chars(kstr))
    IN  IF n > 0 /\ Len(pressed) >= n
           /\ SubSeq(pressed, Len(pressed) - n + 1, Len(pressed)) = Chars(kstr)
        THEN SubSeq(pressed, 1, Len(pressed) - n)
        ELSE pressed

(***************************************************************************)
(* get_next_hint (utils.rs)                                                *)
(***************************************************************************)
\* Mutant: the size loop left out.
size_required_one(alphabet, max_count) == 1

\* while hint_chars.len().pow(size_required) < max_count { size_required += 1 }
RECURSIVE SizeLoop(_, _, _)
SizeLoop(len, max_count, size_required) ==
    IF Pow(len, size_required) < max_count
    THEN SizeLoop(len, max_count, size_required + 1)
    ELSE size_required

\* char::len_utf8: the bytes a character takes in a str.
len_utf8(c) == IF c = "é" THEN 2 ELSE 1

\* str::len: the length of a str in bytes.
RECURSIVE str_len(_)
str_len(s) == IF s = << >> THEN 0 ELSE len_utf8(Head(s)) + str_len(Tail(s))

size_required_for(alphabet, max_count) == SizeLoop(str_len(alphabet), max_count, 1)

\* chars().rev()
Rev(s) == [i \in 1..Len(s) |-> s[Len(s) + 1 - i]]

\* multi_cartesian_product of k copies of cs: the first position changes
\* slowest.
RECURSIVE Product(_, _)
RECURSIVE PrependEach(_, _, _)
PrependEach(cs, rest, i) ==
    IF i > Len(cs) THEN << >>
    ELSE [j \in 1..Len(rest) |-> << cs[i] >> \o rest[j]] \o PrependEach(cs, rest, i + 1)

Product(cs, k) ==
    IF k = 0 THEN << << >> >> ELSE PrependEach(cs, Product(cs, k - 1), 1)

\* current_hints.contains(&&folded)
contains(current_hints, folded) ==
    \E i \in 1..Len(current_hints) : current_hints[i] = folded

\* Mutant: the first candidate that is not in current_hints is kept.
RECURSIVE HintLoop_first(_, _, _, _)
HintLoop_first(it, i, current_hints, ret) ==
    IF i > Len(it) THEN ret
    ELSE IF ~contains(current_hints, it[i]) THEN it[i]
    ELSE HintLoop_first(it, i + 1, current_hints, ret)

\* The for loop: every candidate that is not in current_hints overwrites ret.
RECURSIVE HintLoop(_, _, _, _)
HintLoop(it, i, current_hints, ret) ==
    IF i > Len(it) THEN ret
    ELSE HintLoop(it, i + 1, current_hints,
                  IF ~contains(current_hints, it[i]) THEN it[i] ELSE ret)

\* get_next_hint, for the alphabets its size loop ends on (two bytes or more).
get_next_hint(current_hints, alphabet, max_count) ==
    LET size == size_required_for(alphabet, max_count)
        it == Product(Rev(alphabet), size)
    IN  HintLoop(it, 1, current_hints, << alphabet[1] >>)

(***************************************************************************)
(* Rectangles (utils.rs)                                                   *)
(***************************************************************************)
\* Mutant: the comparisons are not strict, touching rectangles intersect.
intersects_touching(r1, r2) ==
    /\ r1[1] <= r2[1] + r2[3] /\ r1[1] + r1[3] >= r2[1]
    /\ r1[2] <= r2[2] + r2[4] /\ r1[2] + r1[4] >= r2[2]

\* Mutant: only the corner of r1 is looked for inside r2.
intersects_corner_only(r1, r2) ==
    /\ r2[1] <= r1[1] /\ r1[1] < r2[1] + r2[3]
    /\ r2[2] <= r1[2] /\ r1[2] < r2[2] + r2[4]

\* intersects: r = <<x, y, w, h>>.
intersects(r1, r2) ==
    LET left_corner_inside == r1[1] < r2[1] + r2[3]
        right_corner_inside == r1[1] + r1[3] > r2[1]
        top_corner_inside == r1[2] < r2[2] + r2[4]
        bottom_corner_inside == r1[2] + r1[4] > r2[2]
    IN  left_corner_inside /\ right_corner_inside
        /\ top_corner_inside /\ bottom_corner_inside

\* Mutant: every overlap is put in front of the ones found before.
RECURSIVE find_overlaps_reversed(_, _)
find_overlaps_reversed(rws, r) ==
    IF rws = << >> THEN << >>
    ELSE find_overlaps_reversed(Tail(rws), r)
         \o (IF intersects(Head(rws).rect, r) THEN << Head(rws).rect >> ELSE << >>)

\* find_overlaps: rws is the list of RenderWindows in iteration order.
RECURSIVE find_overlaps(_, _)
find_overlaps(rws, r) ==
    IF rws = << >> THEN << >>
    ELSE (IF intersects(Head(rws).rect, r) THEN << Head(rws).rect >> ELSE << >>)
         \o find_overlaps(Tail(rws), r)

\* The casts `as i16` and `as u16` of an integer.
AsI16(v) == ((v + 32768) % 65536) - 32768
AsU16(v) == v % 65536

\* render_windows.values().collect(), in the map's iteration order.
values(rws, ord) == [i \in 1..Len(ord) |-> rws[ord[i]]]

(***************************************************************************)
(* sort_by_pos (utils.rs)                                                  *)
(***************************************************************************)
\* Vec::sort_by_key is stable: w goes behind every window whose key is not
\* greater than its own.
InsertByKey(w, s, axis) ==
    LET smaller == { i \in 1..Len(s) : s[i].pos[axis] <= w.pos[axis] }
        k == IF smaller = {} THEN 0
             ELSE CHOOSE i \in smaller : \A j \in smaller : j <= i
    IN  SubSeq(s, 1, k) \o << w >> \o SubSeq(s, k + 1, Len(s))

RECURSIVE SortByKeyFrom(_, _, _)
SortByKeyFrom(done, todo, axis) ==
    IF todo = << >> THEN done
    ELSE SortByKeyFrom(InsertByKey(Head(todo), done, axis), Tail(todo), axis)

sort_by_key(dws, axis) == SortByKeyFrom(<< >>, dws, axis)

sort_by_pos(dws) == sort_by_key(sort_by_key(dws, 1), 2)

(***************************************************************************)
(* main(): the inputs                                                      *)
(***************************************************************************)
\* A DesktopWindow as crawl_windows builds it (x_window_id is always Some).
DesktopWindow(id, pos, size) ==
    [id |-> id, x_window_id |-> 1000 + id, pos |-> pos, size |-> size]

\* The hint alphabets, the exit-key texts and the window layouts of the runs.
Alphabets == { << "a", "b" >>, << "a", "b", "g" >>, << "é", "a" >>, << "a", "t" >> }

ExitKeyArgs ==
    { << >>, << Join(<< "Control_L", "g" >>) >>, << Join(<< "a" >>) >> }

\* get_windows() of the selection runs: window i of n, listed last first.
RawWindows(n) ==
    [i \in 1..n |-> DesktopWindow(i, << 10 * (n - i), 5 * (n - i) >>, << 400, 300 >>)]

\* parse_exit_keys for every --exit-keys value.
parse_exit_keys(s) == Sequence_new(Some(s))

NoEvent == [type |-> "None", key |-> NoKey]
CleanStart == [clean |-> TRUE, keys |-> << >>, held |-> FALSE]
Dirty == [clean |-> FALSE, keys |-> << >>, held |-> FALSE]
NotDrawn == [done |-> FALSE, prefix |-> << >>]
Drawn(p) == [done |-> TRUE, prefix |-> p]

\* The state of the variables of the loop before the loop starts.
LoopInit ==
    /\ pressed_keys = << >>
    /\ sequence = Sequence_new(None)
    /\ closed = FALSE
    /\ outcome = "Running"
    /\ effects = << >>
    /\ event = NoEvent
    /\ drawn = NotDrawn
    /\ typed = CleanStart

SetupInit ==
    /\ render_windows = << >>
    /\ order = << >>
    /\ hint = << >>
    /\ cur = 1
    /\ rect = << 0, 0, 0, 0 >>
    /\ overlaps = << >>

PureInit ==
    /\ hist = << >>
    /\ arg = << >>
    /\ res = << >>

Init ==
    /\ pc = "assign"
    /\ hint_chars \in Alphabets
    /\ print_only \in BOOLEAN
    /\ \E args \in ExitKeyArgs :
           exit_keys = [i \in 1..Len(args) |-> parse_exit_keys(args[i])]
    /\ \E n \in 1..MaxWindows :
           /\ desktop_windows = sort_by_pos(RawWindows(n))
           /\ extents = [i \in 1..n |-> << 50, 20 >>]
    /\ SetupInit
    /\ LoopInit
    /\ PureInit

(***************************************************************************)
(* main(): assembling the RenderWindows (main.rs 66-229)                   *)
(***************************************************************************)
keys(ord) == ord

\* Top of the for loop: the hint of the window, its box and the first
\* find_overlaps. Alignment is left/top with offset 0,0 (the defaults).
StartWindow ==
    /\ pc = "assign"
    /\ cur <= Len(desktop_windows)
    /\ LET desktop_window == desktop_windows[cur]
           width == AsU16(extents[desktop_window.id][1])
           height == AsU16(extents[desktop_window.id][2])
           x == AsI16(desktop_window.pos[1])
           y == AsI16(desktop_window.pos[2])
       IN  /\ hint' = get_next_hint(keys(order), hint_chars, Len(desktop_windows))
           /\ rect' = << x, y, width, height >>
           /\ overlaps' = find_overlaps(values(render_windows, order),
                                        << x, y, width, height >>)
    /\ pc' = "nudge"
    /\ UNCHANGED << configVars, render_windows, order, cur, loopVars, pureVars >>

\* x += overlaps.pop().unwrap().2 as i16, then find_overlaps again. The
\* addition is on i16: out of range it panics with overflow checks and
\* wraps around without them.
NudgeStep ==
    /\ pc = "nudge"
    /\ overlaps # << >>
    /\ LET d == AsI16(overlaps[Len(overlaps)][3])
           sum == rect[1] + d
           x == AsI16(sum)
           r == << x, rect[2], rect[3], rect[4] >>
       IN  \/ /\ rect' = r
              /\ overlaps' = find_overlaps(values(render_windows, order), r)
              /\ UNCHANGED << pc, outcome >>
           \/ /\ sum # x
              /\ pc' = "done"
              /\ outcome' = "Panic"
              /\ UNCHANGED << rect, overlaps >>
    /\ UNCHANGED << configVars, render_windows, order, hint, cur, pressed_keys,
                    sequence, closed, effects, event, drawn, typed, pureVars >>

\* The loop is left: the X window is created, the RenderWindow is built and
\* inserted under its hint; the map may iterate in any order afterwards. The
\* X server refuses a window of width or height 0 (a Value error), and
\* check_request hands the error to main.
InsertWindow ==
    /\ pc = "nudge"
    /\ overlaps = << >>
    /\ rect[3] > 0 /\ rect[4] > 0
    /\ LET render_window == [desktop_window |-> desktop_windows[cur], rect |-> rect]
           inserted == [h \in (DOMAIN render_windows) \cup { hint } |->
                           IF h = hint THEN render_window ELSE render_windows[h]]
       IN  /\ render_windows' = inserted
           /\ order' \in Orderings(DOMAIN inserted)
    /\ cur' = cur + 1
    /\ pc' = "assign"
    /\ UNCHANGED << configVars, hint, rect, overlaps, loopVars, pureVars >>

\* One of the requests between the nudge loop and the insert fails (creating
\* or mapping the window, the atom, the visual, the cairo surface): main
\* returns the error.
CreateWindowFails ==
    /\ pc = "nudge"
    /\ overlaps = << >>
    /\ pc' = "done"
    /\ outcome' = "Error"
    /\ UNCHANGED << configVars, setupVars, pressed_keys, sequence, closed,
                    effects, event, drawn, typed, pureVars >>

\* The for loop is over. Nothing below depends on the order in which the map
\* iterates (the hints are all drawn, whatever the order), so it is dropped.
EndFor ==
    /\ pc = "assign"
    /\ cur > Len(desktop_windows)
    /\ pc' = "grab_keyboard"
    /\ order' = << >>
    /\ UNCHANGED << configVars, render_windows, hint, cur, rect, overlaps,
                    loopVars, pureVars >>

(***************************************************************************)
(* main(): grabbing the input (main.rs 231-235)                            *)
(***************************************************************************)
\* The status of a grab reply.
GrabStatuses == { "Success", "AlreadyGrabbed" }

\* Mutant: the status of the reply is not looked at.
grab_succeeded_always(status) == TRUE

\* reply.status() == GRAB_STATUS_SUCCESS
grab_succeeded(status) == status = "Success"

\* One step of the loop of snatch_keyboard and snatch_mouse, main being at
\* here and going to next with Ok(()). The timeout may have elapsed at any
\* check; it has when MaxAttempts attempts failed, each followed by a sleep.
\* An Err ends main through the ? operator.
snatch(here, next) ==
    /\ pc = here
    /\ \/ \* now.elapsed() > timeout
          /\ res' = << "Err", "Couldn't grab keyboard input within timeout" >>
          /\ hist' = << >>
          /\ pc' = "done"
          /\ outcome' = "Error"
       \/ \* get_reply() fails
          /\ Len(hist) < MaxAttempts
          /\ res' = << "Err", "Couldn't communicate with X" >>
          /\ hist' = << >>
          /\ pc' = "done"
          /\ outcome' = "Error"
       \/ \* the reply of the grab request
          /\ Len(hist) < MaxAttempts
          /\ \E status \in GrabStatuses :
                 IF grab_succeeded(status)
                 THEN /\ res' = << "Ok", status >>
                      /\ hist' = << >>
                      /\ pc' = next
                      /\ UNCHANGED outcome
                 ELSE /\ res' = << "Retry", status >>
                      /\ hist' = Append(hist, status)
                      /\ UNCHANGED << pc, outcome >>
    /\ UNCHANGED << configVars, setupVars, pressed_keys, sequence, closed,
                    effects, event, drawn, typed, arg >>

\* utils::snatch_keyboard(&conn, &screen, Duration::from_secs(1))?
snatch_keyboard == snatch("grab_keyboard", "grab_mouse")

\* utils::snatch_mouse(&conn, &screen, Duration::from_secs(1))?
snatch_mouse == snatch("grab_mouse", "loop")

(***************************************************************************)
(* main(): the event loop (main.rs 243-335)                                *)
(***************************************************************************)
Hints == DOMAIN render_windows

\* History of clean typing: the keys pressed and released one after another
\* since the loop started, as long as they spell the beginning of a hint, no
\* call failed and nothing else happened; "dirty" from then on.
Spelled(ks) == IF ks = << >> THEN << >> ELSE [i \in 1..Len(ks) |-> Chars(ks[i])[1]]

Track(type, k) ==
    IF ~typed.clean THEN Dirty
    ELSE IF type = "KeyPress" /\ ~typed.held /\ Len(Chars(k)) = 1
            /\ \E h \in Hints : IsPrefix(Spelled(Append(typed.keys, k)), h)
         THEN [clean |-> TRUE, keys |-> Append(typed.keys, k), held |-> TRUE]
    ELSE IF type = "KeyRelease" /\ typed.held /\ k = typed.keys[Len(typed.keys)]
         THEN [clean |-> TRUE, keys |-> typed.keys, held |-> FALSE]
    ELSE Dirty

\* Mutant: the loop goes on whatever closed is.
AfterEvent_goes_on(c) == "loop"

\* while !closed: leaving the loop ends main with Ok(()).
AfterEvent(c) == IF c THEN "done" ELSE "loop"

\* The ? operator on an Err: main returns the error from inside the loop,
\* closed as it was.
ReturnsErr ==
    /\ pc' = "done"
    /\ outcome' = "Error"
    /\ typed' = Dirty
    /\ UNCHANGED closed

\* Err(_) => closed = true
WaitError ==
    /\ pc = "loop" /\ ~closed
    /\ closed' = TRUE
    /\ outcome' = "Aborted"
    /\ event' = [type |-> "Error", key |-> NoKey]
    /\ typed' = Track("Error", NoKey)
    /\ pc' = AfterEvent(TRUE)
    /\ UNCHANGED << configVars, setupVars, pressed_keys, sequence, effects, drawn,
                    pureVars >>

\* Expose: every hint is drawn with the pressed prefix. When draw_hint_text
\* or flush fails at one of the hints, main returns the error with the hints
\* before it drawn and the others not.
Expose ==
    /\ pc = "loop" /\ ~closed
    /\ event' = [type |-> "Expose", key |-> NoKey]
    /\ \/ /\ drawn' = Drawn(pressed_keys)
          /\ typed' = Track("Expose", NoKey)
          /\ UNCHANGED << pc, closed, outcome >>
       \/ /\ drawn' = NotDrawn
          /\ ReturnsErr
    /\ UNCHANGED << configVars, setupVars, pressed_keys, sequence, effects, pureVars >>

\* ButtonPress => closed = true
ButtonPress ==
    /\ pc = "loop" /\ ~closed
    /\ closed' = TRUE
    /\ outcome' = "Aborted"
    /\ event' = [type |-> "ButtonPress", key |-> NoKey]
    /\ typed' = Track("ButtonPress", NoKey)
    /\ pc' = AfterEvent(TRUE)
    /\ UNCHANGED << configVars, setupVars, pressed_keys, sequence, effects, drawn,
                    pureVars >>

\* A key event whose keysym keysym_to_string converts to no name: main
\* returns the error of .context("Couldn't convert ksym to string")? before
\* anything else is done with the event.
Undecodable(type) ==
    /\ pc = "loop" /\ ~closed
    /\ event' = [type |-> type, key |-> NoKey]
    /\ ReturnsErr
    /\ UNCHANGED << configVars, setupVars, pressed_keys, sequence, effects, drawn,
                    pureVars >>

KeyReleaseUndecodable == Undecodable("KeyRelease")

KeyPressUndecodable == Undecodable("KeyPress")

\* KeyRelease: sequence.remove(kstr)
KeyRelease(k) ==
    /\ pc = "loop" /\ ~closed
    /\ sequence' = remove(sequence, k)
    /\ event' = [type |-> "KeyRelease", key |-> k]
    /\ typed' = Track("KeyRelease", k)
    /\ UNCHANGED << pc, configVars, setupVars, pressed_keys, closed, outcome,
                    effects, drawn, pureVars >>

\* The mutants of the definitions below: each changes one the way a slip in
\* the code would.
is_exit_escape_only(k, seq) == k = "Escape"

Select_always_focus(rw) == [kind |-> "focus_window", window |-> rw.desktop_window.id]

any_starts_with_exact(pressed) == pressed # << >> /\ pressed \in Hints

closed_on_dead_end_always == TRUE

is_exit_chord_started(k, seq) ==
    k = "Escape" \/ Len(seq) > 1
    \/ \E i \in 1..Len(exit_keys) : SequenceEq(exit_keys[i], seq)

is_exit_tokens_held(k, seq) ==
    k = "Escape"
    \/ \E i \in 1..Len(exit_keys) : Range(exit_keys[i]) \subseteq Range(seq)

Select_inverted(rw) ==
    IF print_only
    THEN [kind |-> "focus_window", window |-> rw.desktop_window.id]
    ELSE [kind |-> "print", text |-> rw.desktop_window.x_window_id]

\* keysym == XK_Escape || app_config.exit_keys.contains(&sequence)
is_exit(k, seq) ==
    k = "Escape" \/ \E i \in 1..Len(exit_keys) : SequenceEq(exit_keys[i], seq)

\* !pressed_keys.is_empty() && render_windows.keys().any(|k| k.starts_with(..))
any_starts_with(pressed) ==
    pressed # << >> /\ \E h \in Hints : IsPrefix(pressed, h)

\* closed = app_config.exit_keys.is_empty()
closed_on_dead_end == exit_keys = << >>

\* wm::focus_window(rw.desktop_window), or the line println! writes.
Select(rw) ==
    IF print_only
    THEN [kind |-> "print", text |-> rw.desktop_window.x_window_id]
    ELSE [kind |-> "focus_window", window |-> rw.desktop_window.id]

KeyPress(k) ==
    /\ pc = "loop" /\ ~closed
    /\ Len(sequence) < MaxHeld
    /\ LET kstr == k
           seq1 == push(sequence, kstr)
           pressed1 == IF IsInfix(Chars(kstr), hint_chars)
                       THEN pressed_keys \o Chars(kstr)
                       ELSE pressed_keys
           ok == /\ typed' = Track("KeyPress", k)
                 /\ pc' = AfterEvent(closed')
       IN  /\ sequence' = seq1
           /\ event' = [type |-> "KeyPress", key |-> k]
           /\ IF is_exit(k, seq1)
              THEN /\ closed' = TRUE
                   /\ outcome' = "Aborted"
                   /\ pressed_keys' = pressed1
                   /\ UNCHANGED << effects, drawn >>
                   /\ ok
              ELSE IF is_started(seq1)
              THEN /\ pressed_keys' = remove_last_key(pressed1, kstr)
                   /\ UNCHANGED << closed, outcome, effects, drawn >>
                   /\ ok
              ELSE IF pressed1 \in Hints
              THEN /\ effects' = Append(effects, Select(render_windows[pressed1]))
                   /\ pressed_keys' = pressed1
                   /\ UNCHANGED drawn
                   /\ \/ /\ closed' = TRUE
                         /\ outcome' = IF print_only THEN "PrintOnly" ELSE "Focus"
                         /\ ok
                      \/ \* wm::focus_window returns an error
                         /\ ~print_only
                         /\ ReturnsErr
              ELSE IF any_starts_with(pressed1)
              THEN /\ pressed_keys' = pressed1
                   /\ UNCHANGED effects
                   /\ \/ /\ drawn' = Drawn(pressed1)
                         /\ UNCHANGED << closed, outcome >>
                         /\ ok
                      \/ \* draw_hint_text or flush fails at one of the hints
                         /\ drawn' = NotDrawn
                         /\ ReturnsErr
              ELSE /\ closed' = closed_on_dead_end
                   /\ outcome' = IF closed_on_dead_end THEN "Aborted" ELSE outcome
                   /\ pressed_keys' = remove_last_key(pressed1, kstr)
                   /\ UNCHANGED << effects, drawn >>
                   /\ ok
    /\ UNCHANGED << configVars, setupVars, pureVars >>

Next ==
    \/ StartWindow
    \/ NudgeStep
    \/ InsertWindow
    \/ CreateWindowFails
    \/ EndFor
    \/ snatch_keyboard
    \/ snatch_mouse
    \/ WaitError
    \/ Expose
    \/ ButtonPress
    \/ KeyReleaseUndecodable
    \/ \E k \in Keys : KeyRelease(k)
    \/ KeyPressUndecodable
    \/ \E k \in Keys : KeyPress(k)

Spec == Init /\ [][Next]_vars

(***************************************************************************)
(* Properties of the selection runs (Spec)                                 *)
(***************************************************************************)
\* A key press: the step of the loop that handles a KeyPress event.
IsKeyPress(k) == pc = "loop" /\ event' = [type |-> "KeyPress", key |-> k]

\* k is a character of the hint alphabet.
IsHintChar(k) == Len(Chars(k)) = 1 /\ Chars(k)[1] \in Range(hint_chars)

\* The pressed prefix as the key press leaves it at main.rs 285, before any
\* branch of the handler looks at it: the name of the key is appended when
\* hint_chars.contains(kstr) holds.
Extended(k) ==
    IF IsInfix(Chars(k), hint_chars) THEN pressed_keys \o Chars(k) ELSE pressed_keys

\* The chord is one of the configured exit sequences.
IsExitChord(seq) == \E i \in 1..Len(exit_keys) : SequenceEq(exit_keys[i], seq)

\* A press of one plain key: nothing else is held, no Escape, no exit chord.
IsPlainPress(k) ==
    IsKeyPress(k) /\ Len(sequence') = 1 /\ k # "Escape" /\ ~IsExitChord(sequence')

\* The one action a selection of the window under hint h takes.
Selection(h) ==
    IF print_only
    THEN [kind |-> "print", text |-> render_windows[h].desktop_window.x_window_id]
    ELSE [kind |-> "focus_window", window |-> render_windows[h].desktop_window.id]

\* C1: with n >= 1 windows and an alphabet of a >= 2 distinct characters, the
\* calls of get_next_hint, one per window with max_count = n, give one hint per
\* window handled so far; the hints have the same length and none is a proper
\* prefix of another.
C1_HintsDistinctSameLength ==
    /\ pc \in { "assign" } => Cardinality(Hints) = cur - 1
    /\ pc \in { "grab_keyboard", "grab_mouse", "loop" } =>
           Cardinality(Hints) = Len(desktop_windows)
    /\ \A h1, h2 \in Hints :
           /\ Len(h1) = Len(h2)
           /\ h1 # h2 => ~IsPrefix(h1, h2)

C1_Witness ==
    /\ pc = "loop"
    /\ Len(desktop_windows) = 3
    /\ Cardinality(Hints) = 3
    /\ \A h \in Hints : Len(h) = 2

\* C2: a plain key press after which the pressed prefix equals an assigned
\* hint ends the run in that step with exactly one action on the window of
\* that hint: focus_window when print-only is off, its native id printed when
\* print-only is on. The run ends as a selection, or with the error
\* focus_window returned.
C2_ExactMatchSelects ==
    [][ \A k \in Keys :
          (IsPlainPress(k) /\ Extended(k) \in Hints) =>
              /\ pc' = "done"
              /\ effects' = Append(effects, Selection(Extended(k)))
              /\ \/ closed' /\ outcome' = (IF print_only THEN "PrintOnly" ELSE "Focus")
                 \/ ~print_only /\ outcome' = "Error" ]_vars

C2_Witness ==
    /\ event.type = "KeyPress"
    /\ outcome = "PrintOnly"
    /\ Len(sequence) = 1
    /\ Len(pressed_keys) = 2
    /\ effects = << [kind |-> "print",
                     text |-> render_windows[pressed_keys].desktop_window.x_window_id] >>

NoExitKeyAmong(ks) == \A i \in 1..Len(ks) : ~IsExitChord(<< ks[i] >>)

C4_ExitAborts ==
    [][ \A k \in Keys :
          (IsKeyPress(k) /\ (k = "Escape" \/ IsExitChord(sequence'))) =>
              /\ pc' = "done"
              /\ closed'
              /\ outcome' = "Aborted"
              /\ effects' = effects ]_vars

C4_Witness ==
    /\ event = [type |-> "KeyPress", key |-> "g"]
    /\ Len(sequence) = 2
    /\ pressed_keys \in Hints
    /\ outcome = "Aborted"
    /\ effects = << >>

RECURSIVE CeilLogFrom(_, _, _)
CeilLogFrom(a, n, L) == IF Pow(a, L) >= n THEN L ELSE CeilLogFrom(a, n, L + 1)

CeilLog(a, n) == CeilLogFrom(a, n, 0)

\* C11: with n >= 1 windows and an alphabet of a >= 2 characters, every hint
\* generated for the n windows has length exactly ceil(log_a(n)).
C11_HintLengthCeilLog ==
    /\ pc = "nudge" => Len(hint) = CeilLog(Len(hint_chars), Len(desktop_windows))
    /\ \A h \in Hints : Len(h) = CeilLog(Len(hint_chars), Len(desktop_windows))

\* C15: with print-only configured no run ever calls focus_window: whatever
\* the events are, the only action is the print of the native id of the
\* selected window, in the step that ends the run as PrintOnly.
C15_PrintOnlyNeverFocuses ==
    print_only =>
        /\ outcome # "Focus"
        /\ \A i \in 1..Len(effects) : effects[i].kind = "print"
        /\ effects # << >> =>
               /\ outcome = "PrintOnly"
               /\ pressed_keys \in Hints
               /\ effects = << [kind |-> "print",
                                text |-> render_windows[pressed_keys]
                                             .desktop_window.x_window_id] >>

C15_Witness ==
    /\ print_only
    /\ pc = "done"
    /\ Len(pressed_keys) = 1
    /\ Len(desktop_windows) = 2
    /\ Len(effects) = 1
    /\ effects[1].kind = "print"

\* After the key press the pressed prefix is empty or starts no hint.
NoHintMatches(k) == Extended(k) = << >> \/ \A h \in Hints : ~IsPrefix(Extended(k), h)

\* A step of the loop that ends the run without a selection.
Cancels == pc = "loop" /\ closed' /\ outcome' = "Aborted"

\* The step is a key press of Escape, or completes an exit chord, or leaves
\* no hint that matches the prefix.
CancellingKeyPress ==
    \E k \in Keys :
        IsKeyPress(k) /\ (k = "Escape" \/ IsExitChord(sequence') \/ NoHintMatches(k))

\* C16 as stated: once the loop is running, the only events that end the run
\* without a selection are a press of Escape, a key press that completes an
\* exit chord and a key press after which no hint matches the prefix; no
\* other event (mouse button, key release, expose) does.
C16_OnlyKeysCancel == [][ Cancels => CancellingKeyPress ]_vars

\* C16, amended: the events that end the run without a selection are those
\* key presses, a press of a mouse button and an error of wait_for_event,
\* which end it as Aborted, and an event in whose handling a call fails, which
\* ends it with that error; a key release and an expose end the run in no
\* other way.
C16_OnlyKeysMouseErrorCancel ==
    [][ /\ Cancels =>
              \/ CancellingKeyPress
              \/ event'.type \in { "ButtonPress", "Error" }
        /\ (pc = "loop" /\ event'.type \in { "KeyRelease", "Expose" }) =>
              /\ effects' = effects
              /\ \/ pc' = "loop" /\ ~closed' /\ outcome' = outcome
                 \/ pc' = "done" /\ outcome' = "Error"
        /\ (pc = "loop" /\ pc' = "done") =>
              outcome' \in { "Aborted", "Error", "Focus", "PrintOnly" } ]_vars

C16_Witness ==
    /\ event.type = "ButtonPress"
    /\ pc = "done"
    /\ outcome = "Aborted"
    /\ pressed_keys # << >>
    /\ effects = << >>

\* The number of times token t occurs in the token list.
Occurrences(seq, t) == Cardinality({ i \in 1..Len(seq) : seq[i] = t })

\* small is a list of some, not all, of the tokens of big.
IsStrictSubList(small, big) ==
    /\ Len(small) >= 1
    /\ Len(small) < Len(big)
    /\ \A t \in Range(small) : Occurrences(small, t) <= Occurrences(big, t)

\* The two lists hold the same tokens the same number of times.
SameTokens(s1, s2) ==
    /\ Len(s1) = Len(s2)
    /\ \A t \in Range(s1) \cup Range(s2) : Occurrences(s1, t) = Occurrences(s2, t)

\* C17: a Sequence is not equal to the Sequence of a non-empty strict
\* sub-list of its tokens: when a key press leaves the keys T held and a
\* configured exit sequence lists only some of them, Sequence::new of the two
\* joined lists differ and the key press does not end the run as an exit
\* (no Escape, no exit sequence that lists all the held keys).
C17_SubsetNotEqual ==
    [][ \A k \in Keys : \A i \in 1..Len(exit_keys) :
          (IsKeyPress(k) /\ IsStrictSubList(exit_keys[i], sequence')) =>
              /\ ~SequenceEq(Sequence_new(Some(Join(sequence'))),
                             Sequence_new(Some(Join(exit_keys[i]))))
              /\ (k # "Escape"
                  /\ \A j \in 1..Len(exit_keys) : ~SameTokens(exit_keys[j], sequence')) =>
                     /\ ~closed'
                     /\ pc' = "loop"
                     /\ outcome' = outcome ]_vars

C17_Witness ==
    /\ event = [type |-> "KeyPress", key |-> "a"]
    /\ exit_keys = << << "a" >> >>
    /\ sequence = << "a", "b" >>
    /\ pc = "loop"
    /\ outcome = "Running"

C24_OtherKeyIgnored ==
    [][ \A k \in Keys :
          (IsKeyPress(k) /\ ~IsHintChar(k) /\ k # "Escape"
           /\ ~IsExitChord(sequence')) =>
              /\ pressed_keys' = pressed_keys
              /\ pc' = "loop"
              /\ ~closed'
              /\ outcome' = "Running"
              /\ effects' = effects
              /\ drawn' = drawn
              /\ SameTokens(sequence', Append(sequence, k)) ]_vars

C26_ProperPrefixRedraws ==
    [][ \A k \in Keys :
          (IsPlainPress(k) /\ Extended(k) # << >> /\ Extended(k) \notin Hints
           /\ \E h \in Hints : IsPrefix(Extended(k), h)) =>
              /\ pc' = "loop"
              /\ ~closed'
              /\ outcome' = "Running"
              /\ effects' = effects
              /\ pressed_keys' = Extended(k)
              /\ drawn' = Drawn(Extended(k)) ]_vars

\* C26, amended: such a key press keeps the appended character in the prefix
\* and focuses or prints nothing; the hints are drawn again with that prefix,
\* and either they all are and the run stays open, or draw_hint_text or flush
\* fails at one of them and the run ends in that step with the error.
C26_ProperPrefixRedrawsOrErr ==
    [][ \A k \in Keys :
          (IsPlainPress(k) /\ Extended(k) # << >> /\ Extended(k) \notin Hints
           /\ \E h \in Hints : IsPrefix(Extended(k), h)) =>
              /\ effects' = effects
              /\ pressed_keys' = Extended(k)
              /\ ~closed'
              /\ \/ /\ pc' = "loop"
                    /\ outcome' = "Running"
                    /\ drawn' = Drawn(Extended(k))
                 \/ /\ pc' = "done"
                    /\ outcome' = "Error"
                    /\ drawn' = NotDrawn ]_vars

C26_Witness ==
    /\ pc = "loop"
    /\ event = [type |-> "KeyPress", key |-> "b"]
    /\ sequence = << "b" >>
    /\ pressed_keys = << "b" >>
    /\ drawn = Drawn(<< "b" >>)
    /\ << "b", "a" >> \in Hints

\* C27: the pressed prefix gets longer only in a key press, only by the name
\* of the pressed key appended to it, and only when that name is a character
\* of the hint alphabet.
C27_OnlyHintCharsAppended ==
    [][ Len(pressed_keys') > Len(pressed_keys) =>
            \E k \in Keys :
                /\ IsKeyPress(k)
                /\ pressed_keys' = pressed_keys \o Chars(k)
                /\ IsHintChar(k) ]_vars

\* C28: the loop handles its first event only after snatch_keyboard and then
\* snatch_mouse returned success; each of them returns success with the first
\* grab attempt whose reply has the status Success and tries again after any
\* other reply; and once its timeout has elapsed without a successful attempt
\* it returns an error, which ends the run before any event is handled.
Grabbing == pc \in { "grab_keyboard", "grab_mouse" }

C28_GrabsBeforeLoop ==
    [][ /\ (pc' = "grab_mouse" /\ pc # "grab_mouse") =>
              pc = "grab_keyboard" /\ res' = << "Ok", "Success" >>
        /\ (pc' = "loop" /\ pc # "loop") =>
              pc = "grab_mouse" /\ res' = << "Ok", "Success" >>
        /\ event' # event => pc = "loop"
        /\ (Grabbing /\ res'[2] = "Success") =>
              pc' = (IF pc = "grab_keyboard" THEN "grab_mouse" ELSE "loop")
        /\ (Grabbing /\ res'[1] = "Retry") =>
              pc' = pc /\ res'[2] # "Success" /\ outcome' = "Running"
        /\ (Grabbing /\ res'[1] = "Err") =>
              /\ pc' = "done"
              /\ outcome' = "Error"
              /\ event' = NoEvent
              /\ pressed_keys' = << >> /\ effects' = << >> ]_vars

C28_Witness ==
    /\ pc = "loop"
    /\ res = << "Ok", "Success" >>
    /\ hist = << >>
    /\ event.type = "KeyPress"
    /\ pressed_keys # << >>

\* C30: whenever the loop waits for the next event and the run has not ended,
\* the pressed prefix is empty or the beginning of at least one assigned hint
\* and shorter than that hint.
C30_PrefixProper ==
    (pc = "loop" /\ ~closed) =>
        \/ pressed_keys = << >>
        \/ \E h \in Hints :
               IsPrefix(pressed_keys, h) /\ Len(pressed_keys) < Len(h)

C30_Witness ==
    /\ pc = "loop"
    /\ ~closed
    /\ event = [type |-> "KeyPress", key |-> "b"]
    /\ sequence = << "b" >>
    /\ pressed_keys = << "b" >>
    /\ ~typed.clean
    /\ exit_keys # << >>

\* The action a selection of the desktop window w is.
IsSelectionOf(e, w) ==
    \/ e = [kind |-> "focus_window", window |-> w.id]
    \/ e = [kind |-> "print", text |-> w.x_window_id]

\* C31: in a run at most one window is focused or printed, in the step that
\* ends the run, and it is one of the windows enumerated at the start; once
\* the run has ended no event is handled any more: the prefix, the chord and
\* the outcome stay as they are.
C31_OneSelectionThenEnd ==
    [][ /\ Len(effects') <= 1
        /\ effects' # effects =>
              /\ effects = << >>
              /\ pc = "loop" /\ pc' = "done"
              /\ \E i \in 1..Len(desktop_windows) :
                     IsSelectionOf(effects'[1], desktop_windows[i])
        /\ (pc = "done" \/ closed) =>
              UNCHANGED << pressed_keys, sequence, outcome, effects, event, closed, pc >>
        /\ (closed' \/ outcome' # "Running") => pc' = "done" ]_vars

C31_Witness ==
    /\ pc = "done"
    /\ closed
    /\ outcome = "Focus"
    /\ Len(desktop_windows) = 3
    /\ effects = << [kind |-> "focus_window", window |-> desktop_windows[3].id] >>
    /\ event.type = "KeyPress"

\* The i-th string (i counted from 0) of length L over the alphabet, in the
\* lexicographic order of the alphabet's own character order: the digits of
\* i to the base of the number of characters. There is none when i is not
\* below that number to the power of L.
RECURSIVE LexString(_, _, _)
LexString(i, L, alphabet) ==
    IF L = 0 THEN << >>
    ELSE LET a == Len(alphabet)
             below == Pow(a, L - 1)
         IN  << alphabet[(i \div below) + 1] >> \o LexString(i % below, L - 1, alphabet)

\* C32: the i-th window of the for loop (i counted from 0) gets the i-th
\* string of the hint length in the lexicographic order of the alphabet,
\* whatever the order in which render_windows hands over the hints assigned
\* so far; with the alphabet "ab" and 3 windows: "aa", "ab", "ba".
C32_HintsInLexOrder ==
    pc = "nudge" =>
        LET i == cur - 1
            L == Len(hint)
        IN  /\ i < Pow(Len(hint_chars), L)
            /\ hint = LexString(i, L, hint_chars)

(***************************************************************************)
(* The placement runs: main.rs 66-229 over window positions and box sizes  *)
(***************************************************************************)
PlacePositions == { << 0, 0 >>, << 10, 5 >>, << 32760, 0 >> }
PlaceExtents == { << 0, 20 >>, << 30, 20 >>, << 50, 20 >> }

InitPlace ==
    /\ pc = "assign"
    /\ hint_chars = << "a", "b" >>
    /\ print_only = FALSE
    /\ exit_keys = << >>
    /\ \E n \in 1..MaxPlaced :
         \E raw \in [1..n -> PlacePositions] :
           /\ desktop_windows =
                  sort_by_pos([i \in 1..n |-> DesktopWindow(i, raw[i], << 400, 300 >>)])
           /\ extents \in [1..n -> PlaceExtents]
    /\ SetupInit
    /\ LoopInit
    /\ PureInit

NextPlace ==
    \/ StartWindow
    \/ NudgeStep
    \/ InsertWindow
    \/ CreateWindowFails
    \/ EndFor

\* main runs on: no step of the for loop waits for anything.
SpecPlace == InitPlace /\ [][NextPlace]_vars /\ WF_vars(NextPlace)

\* Two rectangles share a point of the plane: their half-open spans overlap
\* in both directions.
Max(a, b) == IF a >= b THEN a ELSE b
Min(a, b) == IF a <= b THEN a ELSE b

SpansOverlap(a, wa, b, wb) == Max(a, b) < Min(a + wa, b + wb)

RectsOverlap(r1, r2) ==
    /\ SpansOverlap(r1[1], r1[3], r2[1], r2[3])
    /\ SpansOverlap(r1[2], r1[4], r2[2], r2[4])

\* C6: no two placed hint rectangles overlap, and when the nudge loop is left
\* the candidate overlaps none of the rectangles placed before it.
C6_NoOverlapAfterPlacement ==
    /\ \A h1, h2 \in Hints :
           h1 # h2 => ~RectsOverlap(render_windows[h1].rect, render_windows[h2].rect)
    /\ (pc = "nudge" /\ overlaps = << >>) =>
           \A h \in Hints : ~RectsOverlap(rect, render_windows[h].rect)

C6_Witness ==
    /\ pc = "grab_keyboard"
    /\ Cardinality(Hints) = 3
    /\ \A h \in Hints : render_windows[h].rect[3] > 0
    /\ \E h \in Hints :
           render_windows[h].rect[1] > render_windows[h].desktop_window.pos[1]

\* C14: find_overlaps returns the rectangles of the placed windows that
\* intersect the candidate, each once and no other, in the order in which the
\* map iterates; the list is empty exactly when no placed rectangle
\* intersects the candidate.
C14_FindOverlapsExact ==
    pc = "nudge" =>
        LET vs == values(render_windows, order)
            hit == { i \in 1..Len(vs) : intersects(vs[i].rect, rect) }
        IN  /\ Len(overlaps) = Cardinality(hit)
            /\ \A j \in 1..Len(overlaps) :
                   \E i \in hit :
                       /\ overlaps[j] = vs[i].rect
                       /\ Cardinality({ m \in hit : m < i }) = j - 1
            /\ (overlaps = << >>) <=>
                   (\A h \in Hints : ~intersects(render_windows[h].rect, rect))

C14_Witness ==
    /\ pc = "nudge"
    /\ Cardinality(Hints) = 2
    /\ Len(overlaps) = 2
    /\ overlaps[1] # overlaps[2]
    /\ overlaps[1] = render_windows[order[1]].rect

\* C19: the nudge loop terminates: whenever it is entered, after finitely
\* many shifts find_overlaps returns the empty list, also when the shifted x
\* leaves the 16-bit range.
C19_NudgeLoopTerminates == (pc = "nudge") ~> (overlaps = << >>)

\* C21: every iteration of the nudge loop changes only the x of the
\* candidate, by exactly the width of the rectangle popped from the end of
\* the find_overlaps result, to the right; y, width, height and the placed
\* rectangles stay as they are. With (0,0,50,20) placed, the candidate
\* (10,5,50,20) becomes (60,5,50,20).
C21_NudgeShiftsRightByWidth ==
    [][ (pc = "nudge" /\ overlaps # << >>) =>
            /\ rect' = << rect[1] + overlaps[Len(overlaps)][3], rect[2], rect[3], rect[4] >>
            /\ rect'[1] > rect[1]
            /\ render_windows' = render_windows ]_vars

\* The nudge loop of main.rs 141-151 from candidate r over the placed
\* windows rws, x wrapping around at the i16 limits: the rectangle it ends with.
RECURSIVE nudge_loop(_, _)
nudge_loop(rws, r) ==
    LET found == find_overlaps(rws, r)
    IN  IF found = << >> THEN r
        ELSE nudge_loop(rws, << AsI16(r[1] + AsI16(found[Len(found)][3])),
                                r[2], r[3], r[4] >>)

\* C22: the order in which the placed rectangles are iterated makes no
\* difference: from the candidate the loop starts with, it ends with the same
\* rectangle for every iteration order of render_windows.
C22_OrderInsignificant ==
    (pc = "nudge" /\ overlaps = << >>) =>
        LET w == desktop_windows[cur]
            start == << AsI16(w.pos[1]), AsI16(w.pos[2]),
                        AsU16(extents[w.id][1]), AsU16(extents[w.id][2]) >>
        IN  \A ord \in Orderings(Hints) :
                nudge_loop(values(render_windows, ord), start) = rect

(***************************************************************************)
(* The Sequence runs: push and remove calls on Sequence::new(None)         *)
(***************************************************************************)
SeqTokens == { "a", "A", "b", "Control_L" }

InitSeq ==
    /\ pc = "sequence"
    /\ hint_chars = << "a", "b" >>
    /\ print_only = FALSE
    /\ exit_keys = << >>
    /\ desktop_windows = << >>
    /\ extents = << >>
    /\ SetupInit
    /\ LoopInit
    /\ PureInit

SeqPush(t) ==
    /\ pc = "sequence"
    /\ Len(hist) < MaxOps
    /\ sequence' = push(sequence, t)
    /\ hist' = Append(hist, [op |-> "push", t |-> t, before |-> sequence])
    /\ UNCHANGED << pc, configVars, setupVars, pressed_keys, closed, outcome,
                    effects, event, drawn, typed, arg, res >>

SeqRemove(t) ==
    /\ pc = "sequence"
    /\ Len(hist) < MaxOps
    /\ sequence' = remove(sequence, t)
    /\ hist' = Append(hist, [op |-> "remove", t |-> t, before |-> sequence])
    /\ UNCHANGED << pc, configVars, setupVars, pressed_keys, closed, outcome,
                    effects, event, drawn, typed, arg, res >>

NextSeq ==
    \/ \E t \in SeqTokens : SeqPush(t)
    \/ \E t \in SeqTokens : SeqRemove(t)

SpecSeq == InitSeq /\ [][NextSeq]_vars

\* The last two calls were push(t) and then remove(t).
PushedThenRemoved ==
    /\ Len(hist) >= 2
    /\ hist[Len(hist) - 1].op = "push"
    /\ hist[Len(hist)].op = "remove"
    /\ hist[Len(hist) - 1].t = hist[Len(hist)].t

\* C7: push(t) followed at once by remove(t) gives a Sequence equal to the
\* one before the push, also when it held t or a token that differs from t
\* in letter case only.
C7_PushRemoveRoundTrip ==
    PushedThenRemoved => SequenceEq(sequence, hist[Len(hist) - 1].before)

C7_Witness ==
    /\ PushedThenRemoved
    /\ hist[Len(hist)].t = "a"
    /\ "a" \in Range(hist[Len(hist) - 1].before)
    /\ "A" \in Range(hist[Len(hist) - 1].before)
    /\ SequenceEq(sequence, hist[Len(hist) - 1].before)

\* The tokens pushed so far, in push order, when nothing was removed.
OnlyPushes == \A i \in 1..Len(hist) : hist[i].op = "push"
Pushed == [i \in 1..Len(hist) |-> hist[i].t]

\* C8: Sequence::new of the "+"-joined token list, in whatever order the
\* tokens are listed, equals the Sequence the tokens were pushed onto.
C8_OrderInsensitive ==
    (OnlyPushes /\ Len(hist) >= 1) =>
        \A f \in Orderings(1..Len(hist)) :
            SequenceEq(Sequence_new(Some(Join([i \in 1..Len(hist) |-> Pushed[f[i]]]))),
                       sequence)

C8_Witness ==
    /\ OnlyPushes
    /\ Pushed = << "b", "Control_L", "a" >>
    /\ sequence = << "a", "b", "Control_L" >>
    /\ SequenceEq(Sequence_new(Some(Join(<< "Control_L", "b", "a" >>))), sequence)

\* The number of tokens held after the calls of h: a push adds one, a remove
\* takes one away when the token is held.
RECURSIVE HeldBag(_)
HeldBag(h) ==
    IF h = << >> THEN [t \in SeqTokens |-> 0]
    ELSE LET b == HeldBag(SubSeq(h, 1, Len(h) - 1))
             e == h[Len(h)]
         IN  IF e.op = "push"
             THEN [b EXCEPT ![e.t] = @ + 1]
             ELSE [b EXCEPT ![e.t] = IF @ > 0 THEN @ - 1 ELSE 0]

RECURSIVE SumOver(_, _)
SumOver(b, S) ==
    IF S = {} THEN 0
    ELSE LET t == CHOOSE x \in S : TRUE IN b[t] + SumOver(b, S \ { t })

HeldCount == SumOver(HeldBag(hist), SeqTokens)

\* C9: is_started() is true exactly when more than one token is held.
C9_IsStartedIffTwoHeld == is_started(sequence) <=> HeldCount > 1

C9_Witness ==
    /\ Len(hist) >= 3
    /\ hist[Len(hist)].op = "remove"
    /\ is_started(hist[Len(hist)].before)
    /\ HeldCount = 1
    /\ ~is_started(sequence)

(***************************************************************************)
(* The intersects runs: one call on a pair of rectangles                   *)
(***************************************************************************)
SmallRects == { << x, y, w, h >> : x \in 0..MaxCoord, y \in 0..MaxCoord,
                                    w \in 0..MaxCoord, h \in 0..MaxCoord }

\* The rectangles of tests::test_intersects and tests::test_no_intersect.
TestRects == { << 1905, 705, 31, 82 >>, << 1905, 723, 38, 64 >>, << 2000, 723, 38, 64 >> }

InitRect ==
    /\ pc = "call"
    /\ arg \in (SmallRects \X SmallRects) \cup (TestRects \X TestRects)
    /\ res = << >>
    /\ hist = << >>
    /\ hint_chars = << "a", "b" >>
    /\ print_only = FALSE
    /\ exit_keys = << >>
    /\ desktop_windows = << >>
    /\ extents = << >>
    /\ SetupInit
    /\ LoopInit

CallIntersects ==
    /\ pc = "call"
    /\ res' = << intersects(arg[1], arg[2]) >>
    /\ pc' = "return"
    /\ UNCHANGED << configVars, setupVars, loopVars, hist, arg >>

NextRect == CallIntersects

SpecRect == InitRect /\ [][NextRect]_vars

\* C10 as stated: intersects is true exactly when the horizontal spans
\* [x, x+w) and the vertical spans [y, y+h) of the two rectangles overlap.
C10_IntersectsIffSpansOverlap ==
    pc = "return" => (res[1] <=> RectsOverlap(arg[1], arg[2]))

Positive(r) == r[3] > 0 /\ r[4] > 0

\* C10, amended: for rectangles of positive width and height, intersects is
\* true exactly when the spans overlap in both directions; rectangles that
\* only touch along an edge or at a corner do not intersect, and the two
\* cases of the test suite come out as the tests say.
C10_IntersectsPositiveSizes ==
    pc = "return" =>
        /\ (Positive(arg[1]) /\ Positive(arg[2])) =>
               (res[1] <=> RectsOverlap(arg[1], arg[2]))
        /\ arg = << << 1905, 705, 31, 82 >>, << 1905, 723, 38, 64 >> >> => res[1]
        /\ arg = << << 1905, 705, 31, 82 >>, << 2000, 723, 38, 64 >> >> => ~res[1]

\* Two rectangles that touch at a corner.
C10_Witness ==
    /\ pc = "return"
    /\ arg = << << 0, 0, 1, 1 >>, << 1, 1, 1, 1 >> >>
    /\ res = << FALSE >>

(***************************************************************************)
(* The get_next_hint runs: one call, the size loop followed step by step   *)
(***************************************************************************)
\* The alphabets of the runs: empty, one character, two and three one-byte
\* characters, and two characters of which one takes two bytes.
HintAlphabets ==
    { << >>, << "a" >>, << "a", "b" >>, << "a", "b", "g" >>, << "é", "a" >> }

\* The strings current_hints is drawn from.
HintPool ==
    { << "a" >>, << "b" >>, << "é" >>,
      << "a", "a" >>, << "a", "b" >>, << "b", "a" >>, << "b", "b" >> }

NoError == ""

InitHint ==
    /\ pc = "size_loop"
    /\ hint_chars \in HintAlphabets
    /\ \E S \in SUBSET HintPool :
           /\ Cardinality(S) <= MaxHints
           /\ \E current_hints \in Orderings(S) :
                \E max_count \in 0..MaxCount :
                    arg = << current_hints, max_count >>
    /\ res = [size_required |-> 1, ret |-> << >>, error |-> NoError]
    /\ hist = << >>
    /\ print_only = FALSE
    /\ exit_keys = << >>
    /\ desktop_windows = << >>
    /\ extents = << >>
    /\ SetupInit
    /\ LoopInit

\* hint_chars.len().pow(size_required) < max_count
SizeLoopCond == Pow(str_len(hint_chars), res.size_required) < arg[2]

\* One iteration of the size loop: size_required += 1. For an alphabet of
\* less than two bytes the power is the same for every size_required >= 1,
\* and only the first MaxSize values are followed one by one.
SizeLoopIter ==
    /\ pc = "size_loop"
    /\ SizeLoopCond
    /\ str_len(hint_chars) >= 2 \/ res.size_required < MaxSize
    /\ res' = [res EXCEPT !.size_required = @ + 1]
    /\ UNCHANGED << pc, configVars, setupVars, loopVars, hist, arg >>

\* The iterations from MaxSize to the largest u32, and the addition that
\* overflows it: a panic with overflow checks, 0 without them.
SizeLoopOverflow ==
    /\ pc = "size_loop"
    /\ SizeLoopCond
    /\ str_len(hint_chars) < 2 /\ res.size_required = MaxSize
    /\ \/ /\ res' = [res EXCEPT !.error = "attempt to add with overflow"]
          /\ pc' = "panic"
       \/ /\ res' = [res EXCEPT !.size_required = 0]
          /\ pc' = "size_loop"
    /\ UNCHANGED << configVars, setupVars, loopVars, hist, arg >>

\* The size loop is left.
SizeLoopExit ==
    /\ pc = "size_loop"
    /\ ~SizeLoopCond
    /\ pc' = "first_char"
    /\ UNCHANGED << configVars, setupVars, loopVars, pureVars >>

\* hint_chars.chars().next().expect("No hint_chars found").to_string()
FirstChar ==
    /\ pc = "first_char"
    /\ IF hint_chars = << >>
       THEN /\ res' = [res EXCEPT !.error = "No hint_chars found"]
            /\ pc' = "panic"
       ELSE /\ res' = [res EXCEPT !.ret = << hint_chars[1] >>]
            /\ pc' = "product"
    /\ UNCHANGED << configVars, setupVars, loopVars, hist, arg >>

\* The product of size_required copies of the reversed alphabet and the for
\* loop over it; ret is returned.
ProductLoop ==
    /\ pc = "product"
    /\ res' = [res EXCEPT !.ret =
                   HintLoop(Product(Rev(hint_chars), res.size_required), 1,
                            arg[1], res.ret)]
    /\ pc' = "return"
    /\ UNCHANGED << configVars, setupVars, loopVars, hist, arg >>

NextHint ==
    \/ SizeLoopIter
    \/ SizeLoopOverflow
    \/ SizeLoopExit
    \/ FirstChar
    \/ ProductLoop

\* The call runs on: no step of it waits for anything.
SpecHint == InitHint /\ [][NextHint]_vars /\ WF_vars(NextHint)

\* C12: the hint length is the smallest L >= 1 with len(alphabet)^L >=
\* max_count, len(alphabet) being the number of characters; a hint is never
\* empty, max_count 0 and 1 give one-character hints, and there are at least
\* max_count candidate strings of length L.
C12_SmallestLength ==
    pc \in { "product", "return" } =>
        LET L == res.size_required
            a == Len(hint_chars)
        IN  /\ L >= 1
            /\ Pow(a, L) >= arg[2]
            /\ L > 1 => Pow(a, L - 1) < arg[2]
            /\ Cardinality(Range(Product(Rev(hint_chars), L))) >= arg[2]
            /\ pc = "return" =>
                   /\ Len(res.ret) >= 1
                   /\ arg[2] <= 1 => Len(res.ret) = 1

\* C13: with an empty alphabet the call fails, whatever max_count and
\* current_hints are, and returns no hint. Every panic is counted as the
\* failure here, not only the one that says "No hint_chars found".
C13_EmptyAlphabetFails ==
    (hint_chars = << >>) =>
        /\ <>(pc = "panic")
        /\ [](pc # "return")

\* C20: with a non-empty alphabet the call terminates, for every max_count:
\* the size loop is left and the call ends. A panic is counted as an end
\* here, although the claim has a hint returned.
C20_HintTerminates == (hint_chars # << >>) => <>(pc \in { "return", "panic" })

\* String number i (from 0) of the n^L strings of length L over the
\* alphabet read in reverse, the first position changing slowest.
Candidate(i, L) ==
    LET n == Len(hint_chars)
    IN  [j \in 1..L |-> hint_chars[n - ((i \div Pow(n, L - j)) % n)]]

SortPositions == { << 0, 0 >>, << 0, 10 >>, << 5, 0 >>, << 5, 10 >> }

\* get_windows() of a run: window i is the i-th of the list.
InitSort ==
    /\ pc = "call"
    /\ \E n \in 0..MaxSorted :
           \E ps \in [1..n -> SortPositions] :
               arg = [i \in 1..n |-> DesktopWindow(i, ps[i], << 400, 300 >>)]
    /\ res = << >>
    /\ hist = << >>
    /\ hint_chars = << "a", "b" >>
    /\ print_only = FALSE
    /\ exit_keys = << >>
    /\ desktop_windows = << >>
    /\ extents = << >>
    /\ SetupInit
    /\ LoopInit

\* let desktop_windows = utils::sort_by_pos(desktop_windows_raw)
CallSortByPos ==
    /\ pc = "call"
    /\ res' = sort_by_pos(arg)
    /\ pc' = "return"
    /\ UNCHANGED << configVars, setupVars, loopVars, hist, arg >>

NextSort == CallSortByPos

SpecSort == InitSort /\ [][NextSort]_vars

\* out holds the windows of in, each as often as in does.
IsPermutation(out, in) ==
    /\ Len(out) = Len(in)
    /\ \A w \in Range(in) \cup Range(out) :
           Cardinality({ i \in 1..Len(out) : out[i] = w })
               = Cardinality({ i \in 1..Len(in) : in[i] = w })

\* C29: sort_by_pos returns a permutation of its input sorted by column
\* first and row second: x ascends, and among windows with the same x, y
\* ascends.
C29_SortedByColumnThenRow ==
    pc = "return" =>
        /\ IsPermutation(res, arg)
        /\ \A i, j \in 1..Len(res) :
               i < j =>
                   \/ res[i].pos[1] < res[j].pos[1]
                   \/ /\ res[i].pos[1] = res[j].pos[1]
                      /\ res[i].pos[2] <= res[j].pos[2]
====
